---- MODULE Spec2Model ----
(***************************************************************************)
(* kantotranslate: the streaming translation session                       *)
(* (services/geminiService.ts, translateWithSlangStream) and the UI state  *)
(* that drives it (App.tsx, handleTranslate and the handlers around it).   *)
(*                                                                         *)
(* Text is a sequence of one-character strings, so that the regular        *)
(* expression of the partial-field extractor, the two replace() calls that *)
(* decode it, String.includes of the error classifier and JSON.parse are   *)
(* computed character by character.                                        *)
(***************************************************************************)
EXTENDS Integers, Sequences, FiniteSets, TLC

\* ---------------------------------------------------------------- bounds
\* Sessions one run of the UI may start (each handleTranslate call that
\* reaches the endpoint takes a fresh session id).
MaxSessions == 2
\* Chunks one stream is cut into in the session-level specification.
MaxChunks == 2
\* Characters of one transport packet in the UI-level specification.
PacketSize == 40
\* Pieces after the field head in the texts the extractor is run on.
MaxPieces == 4
\* Characters of the audio payload of a speech response.
MaxPayloadLen == 4

\* ------------------------------------------------------------ characters
Quote == "\""
Backslash == "\\"
Newline == "\n"
Tab == "\t"

\* ECMAScript WhiteSpace and LineTerminator characters that occur here (\s).
RegexWhitespace == {" ", "\t", "\n", "\r", "\f"}
\* `.` matches everything but line terminators.
LineTerminators == {"\n", "\r"}
\* JSON insignificant whitespace.
JsonWhitespace == {" ", "\t", "\n", "\r"}
\* Characters JSON forbids raw inside a string (code points below 0x20).
JsonControlChars == {"\t", "\n", "\r", "\f"}
HexDigits == {"0", "1", "2", "3", "4", "5", "6", "7", "8", "9",
              "a", "b", "c", "d", "e", "f", "A", "B", "C", "D", "E", "F"}
Digits == {"0", "1", "2", "3", "4", "5", "6", "7", "8", "9"}

translatedTextKey == <<"t","r","a","n","s","l","a","t","e","d","T","e","x","t">>
explanationKey == <<"e","x","p","l","a","n","a","t","i","o","n">>
slangUsedKey == <<"s","l","a","n","g","U","s","e","d">>
vibeKey == <<"v","i","b","e">>
termKey == <<"t","e","r","m">>
meaningKey == <<"m","e","a","n","i","n","g">>
contextKey == <<"c","o","n","t","e","x","t">>
transliterationKey == <<"t","r","a","n","s","l","i","t","e","r","a","t","i","o","n">>

\* ------------------------------------------------------------ text helpers
\* s has pat at index i (1-based).
HasAt(s, i, pat) ==
  /\ i >= 1
  /\ i + Len(pat) - 1 <= Len(s)
  /\ \A k \in 1..Len(pat) : s[i + k - 1] = pat[k]

\* String.prototype.includes
Includes(s, pat) == \E i \in 1..(Len(s) + 1) : HasAt(s, i, pat)

IsPrefix(p, s) == Len(p) <= Len(s) /\ SubSeq(s, 1, Len(p)) = p

\* String.prototype.replace with a global two-character literal pattern:
\* every non-overlapping occurrence of pat, left to right, becomes by.
RECURSIVE ReplaceAll(_, _, _)
ReplaceAll(s, pat, by) ==
  IF s = <<>> THEN <<>>
  ELSE IF HasAt(s, 1, pat)
       THEN by \o ReplaceAll(SubSeq(s, Len(pat) + 1, Len(s)), pat, by)
       ELSE <<s[1]>> \o ReplaceAll(SubSeq(s, 2, Len(s)), pat, by)

\* String.prototype.trim
RECURSIVE TrimStart(_)
TrimStart(s) ==
  IF s # <<>> /\ s[1] \in RegexWhitespace THEN TrimStart(Tail(s)) ELSE s

RECURSIVE TrimEnd(_)
TrimEnd(s) ==
  IF s # <<>> /\ s[Len(s)] \in RegexWhitespace
  THEN TrimEnd(SubSeq(s, 1, Len(s) - 1)) ELSE s

Trim(s) == TrimEnd(TrimStart(s))

\* ---------------------------------------------------------------- JSON.parse
\* Parsed values are tagged: [t |-> "str", v |-> characters],
\* [t |-> "obj", v |-> <<key, value>> pairs in source order],
\* [t |-> "arr", v |-> values], [t |-> "num", v |-> its digits],
\* and "null", "true", "false" with an empty payload. "none" is the absence
\* of a value (JavaScript null held by the UI state).
JNone == [t |-> "none", v |-> <<>>]
JStr(chars) == [t |-> "str", v |-> chars]
JObj(pairs) == [t |-> "obj", v |-> pairs]
JArr(items) == [t |-> "arr", v |-> items]
JLit(name) == [t |-> name, v |-> <<>>]

ParseFail == [ok |-> FALSE, val |-> JNone, next |-> 0]
ParseOk(value, n) == [ok |-> TRUE, val |-> value, next |-> n]

RECURSIVE SkipWs(_, _)
SkipWs(s, i) ==
  IF i <= Len(s) /\ s[i] \in JsonWhitespace THEN SkipWs(s, i + 1) ELSE i

\* The character a two-character escape stands for.
SimpleEscape ==
  [c \in {"\"", "\\", "/", "n", "t", "r", "f"} |->
     CASE c = "n" -> "\n"
       [] c = "t" -> "\t"
       [] c = "r" -> "\r"
       [] c = "f" -> "\f"
       [] OTHER -> c]

\* \uXXXX: the code points the inputs of this model use; any other one is
\* kept as one stand-in character.
UnicodeChar(hex) ==
  IF hex = <<"0","0","4","1">> THEN "A"
  ELSE IF hex = <<"0","0","2","2">> THEN "\""
  ELSE "?"

\* From the character after the opening quote to the closing quote.
RECURSIVE ParseStringChars(_, _, _)
ParseStringChars(s, i, acc) ==
  IF i > Len(s) THEN ParseFail
  ELSE IF s[i] = Quote THEN ParseOk(JStr(acc), i + 1)
  ELSE IF s[i] = Backslash THEN
    IF i + 1 > Len(s) THEN ParseFail
    ELSE IF s[i + 1] \in DOMAIN SimpleEscape
      THEN ParseStringChars(s, i + 2, Append(acc, SimpleEscape[s[i + 1]]))
    ELSE IF /\ s[i + 1] = "u"
            /\ i + 5 <= Len(s)
            /\ \A k \in 2..5 : s[i + k] \in HexDigits
      THEN ParseStringChars(s, i + 6,
                            Append(acc, UnicodeChar(SubSeq(s, i + 2, i + 5))))
    ELSE ParseFail
  ELSE IF s[i] \in JsonControlChars THEN ParseFail
  ELSE ParseStringChars(s, i + 1, Append(acc, s[i]))

RECURSIVE ScanDigits(_, _)
ScanDigits(s, i) ==
  IF i <= Len(s) /\ s[i] \in Digits THEN ScanDigits(s, i + 1) ELSE i

\* Integers: an optional minus, then 0 or a digit run without leading zero.
ParseNumber(s, i) ==
  LET d == IF s[i] = "-" THEN i + 1 ELSE i
      e == ScanDigits(s, d)
  IN IF e = d THEN ParseFail
     ELSE IF s[d] = "0" /\ e > d + 1 THEN ParseOk([t |-> "num", v |-> <<"0">>], d + 1)
     ELSE ParseOk([t |-> "num", v |-> SubSeq(s, i, e - 1)], e)

RECURSIVE ParseValue(_, _)
RECURSIVE ParseMembers(_, _, _)
RECURSIVE ParseElements(_, _, _)

\* i is at the first key of an object, or after a comma.
ParseMembers(s, i0, acc) ==
  LET i == SkipWs(s, i0) IN
  IF i > Len(s) \/ s[i] # Quote THEN ParseFail
  ELSE LET k == ParseStringChars(s, i + 1, <<>>) IN
    IF ~k.ok THEN ParseFail
    ELSE LET c == SkipWs(s, k.next) IN
      IF c > Len(s) \/ s[c] # ":" THEN ParseFail
      ELSE LET x == ParseValue(s, c + 1) IN
        IF ~x.ok THEN ParseFail
        ELSE LET e == SkipWs(s, x.next)
                 got == Append(acc, <<k.val.v, x.val>>)
             IN IF e > Len(s) THEN ParseFail
                ELSE IF s[e] = "," THEN ParseMembers(s, e + 1, got)
                ELSE IF s[e] = "}" THEN ParseOk(JObj(got), e + 1)
                ELSE ParseFail

\* i is at the first element of an array, or after a comma.
ParseElements(s, i0, acc) ==
  LET x == ParseValue(s, i0) IN
  IF ~x.ok THEN ParseFail
  ELSE LET e == SkipWs(s, x.next)
           got == Append(acc, x.val)
       IN IF e > Len(s) THEN ParseFail
          ELSE IF s[e] = "," THEN ParseElements(s, e + 1, got)
          ELSE IF s[e] = "]" THEN ParseOk(JArr(got), e + 1)
          ELSE ParseFail

ParseValue(s, i0) ==
  LET i == SkipWs(s, i0) IN
  IF i > Len(s) THEN ParseFail
  ELSE IF s[i] = "{" THEN
    LET j == SkipWs(s, i + 1) IN
    IF j <= Len(s) /\ s[j] = "}" THEN ParseOk(JObj(<<>>), j + 1)
    ELSE ParseMembers(s, j, <<>>)
  ELSE IF s[i] = "[" THEN
    LET j == SkipWs(s, i + 1) IN
    IF j <= Len(s) /\ s[j] = "]" THEN ParseOk(JArr(<<>>), j + 1)
    ELSE ParseElements(s, j, <<>>)
  ELSE IF s[i] = Quote THEN ParseStringChars(s, i + 1, <<>>)
  ELSE IF HasAt(s, i, <<"n","u","l","l">>) THEN ParseOk(JLit("null"), i + 4)
  ELSE IF HasAt(s, i, <<"t","r","u","e">>) THEN ParseOk(JLit("true"), i + 4)
  ELSE IF HasAt(s, i, <<"f","a","l","s","e">>) THEN ParseOk(JLit("false"), i + 5)
  ELSE IF s[i] = "-" \/ s[i] \in Digits THEN ParseNumber(s, i)
  ELSE ParseFail

\* JSON.parse(text): [ok |-> TRUE, val |-> value], or ok FALSE where it
\* throws a SyntaxError.
JsonParse(s) ==
  LET r == ParseValue(s, 1) IN
  IF r.ok /\ SkipWs(s, r.next) > Len(s)
  THEN [ok |-> TRUE, val |-> r.val]
  ELSE [ok |-> FALSE, val |-> JNone]

\* True unless the value is one JavaScript treats as false (null, false, 0, "").
Truthy(x) ==
  CASE x.t \in {"none", "null", "false"} -> FALSE
    [] x.t = "str" -> x.v # <<>>
    [] x.t = "num" -> x.v \notin {<<"0">>, <<"-", "0">>}
    [] OTHER -> TRUE

\* Property read obj[key] on a parsed value: the last member of that name
\* (JSON.parse keeps the last duplicate), JNone where there is none.
Get(x, key) ==
  IF x.t # "obj" THEN JNone
  ELSE LET hits == {k \in 1..Len(x.v) : x.v[k][1] = key}
       IN IF hits = {} THEN JNone
          ELSE x.v[CHOOSE k \in hits : \A h \in hits : h <= k][2]

\* ------------------------------------------------- partial-field extractor
\* /"translatedText":\s*"((?:[^"\\]|\\.)*)"/
NoMatch == [found |-> FALSE, group |-> <<>>]

RECURSIVE SkipRegexWs(_, _)
SkipRegexWs(s, i) ==
  IF i <= Len(s) /\ s[i] \in RegexWhitespace THEN SkipRegexWs(s, i + 1) ELSE i

\* ScanSpan, ending the span at the first quote whatever precedes it.
RECURSIVE ScanSpanFirstQuote(_, _)
ScanSpanFirstQuote(s, j) ==
  IF j > Len(s) THEN 0
  ELSE IF s[j] = Quote THEN j
  ELSE ScanSpanFirstQuote(s, j + 1)

\* ScanSpan, taking what has arrived of a span that is not closed yet.
RECURSIVE ScanSpanPartial(_, _)
ScanSpanPartial(s, j) ==
  IF j > Len(s) THEN Len(s) + 1
  ELSE IF s[j] = Quote THEN j
  ELSE IF s[j] = Backslash THEN
    IF j + 1 <= Len(s) /\ s[j + 1] \notin LineTerminators
    THEN ScanSpanPartial(s, j + 2) ELSE Len(s) + 1
  ELSE ScanSpanPartial(s, j + 1)

\* (?:[^"\\]|\\.)*" from index j: the index of the quote that ends the span,
\* 0 when the pattern cannot be completed from j.
RECURSIVE ScanSpan(_, _)
ScanSpan(s, j) ==
  IF j > Len(s) THEN 0
  ELSE IF s[j] = Quote THEN j
  ELSE IF s[j] = Backslash THEN
    IF j + 1 <= Len(s) /\ s[j + 1] \notin LineTerminators
    THEN ScanSpan(s, j + 2) ELSE 0
  ELSE ScanSpan(s, j + 1)

\* The literal head of the pattern: "translatedText":
FieldHead == <<Quote>> \o translatedTextKey \o <<Quote, ":">>

\* The attempt that starts at index i.
MatchAt(s, i) ==
  IF ~HasAt(s, i, FieldHead) THEN NoMatch
  ELSE LET q == SkipRegexWs(s, i + Len(FieldHead)) IN
    IF q > Len(s) \/ s[q] # Quote THEN NoMatch
    ELSE LET e == ScanSpan(s, q + 1) IN
      IF e = 0 THEN NoMatch
      ELSE [found |-> TRUE, group |-> SubSeq(s, q + 1, e - 1)]

\* The leftmost attempt at or after index i that succeeds.
RECURSIVE MatchFrom(_, _)
MatchFrom(s, i) ==
  IF i > Len(s) THEN NoMatch
  ELSE IF s[i] # Quote THEN MatchFrom(s, i + 1)
  ELSE LET m == MatchAt(s, i) IN
       IF m.found THEN m ELSE MatchFrom(s, i + 1)

\* fullText.match(...)
RegexMatch(s) == MatchFrom(s, 1)

\* match[1].replace(/\\n/g, '\n').replace(/\\"/g, '"')
Decode(group) ==
  ReplaceAll(ReplaceAll(group, <<Backslash, "n">>, <<Newline>>),
             <<Backslash, Quote>>, <<Quote>>)

\* `if (match && match[1])`: whether onChunk is called on this match.
Reports(m) == m.found /\ m.group # <<>>

\* ---------------------------------------------------------- error classifier
Sig429 == <<"4","2","9">>

ErrorKinds == {"OFFLINE", "QUOTA_EXCEEDED", "CONFIG_ERROR", "SAFETY_BLOCK",
               "EMPTY_RESPONSE", "PARSE_ERROR", "UNKNOWN_ERROR"}

\* Classify, rethrowing what it caught where nothing matches.
ClassifyRethrow(error, onLine) ==
  IF Includes(error.message, Sig429) THEN "QUOTA_EXCEEDED"
  ELSE IF ~onLine THEN "OFFLINE"
  ELSE "RETHROWN"

\* Classify, with connectivity checked before the 429 test.
ClassifyOfflineFirst(error, onLine) ==
  IF ~onLine THEN "OFFLINE"
  ELSE IF Includes(error.message, Sig429) THEN "QUOTA_EXCEEDED"
  ELSE "UNKNOWN_ERROR"

\* The catch block of translateWithSlangStream: the message of the Error it
\* throws, from the caught error and navigator.onLine.
Classify(error, onLine) ==
  IF Includes(error.message, Sig429) THEN "QUOTA_EXCEEDED"
  ELSE IF ~onLine THEN "OFFLINE"
  ELSE "UNKNOWN_ERROR"

\* ------------------------------------------------ the generation endpoint
\* What the endpoint sends is its JSON encoding of an object of the declared
\* responseSchema, cut into fragments; a stream may also end early or carry
\* an object that does not honour the schema.
RECURSIVE JsonEscape(_)
JsonEscape(chars) ==
  IF chars = <<>> THEN <<>>
  ELSE LET c == chars[1]
           e == CASE c = Quote -> <<Backslash, Quote>>
                  [] c = Backslash -> <<Backslash, Backslash>>
                  [] c = Newline -> <<Backslash, "n">>
                  [] c = Tab -> <<Backslash, "t">>
                  [] OTHER -> <<c>>
       IN e \o JsonEscape(Tail(chars))

StrText(chars) == <<Quote>> \o JsonEscape(chars) \o <<Quote>>

Member(key, valueText) == <<Quote>> \o key \o <<Quote, ":">> \o valueText

RECURSIVE JoinMembers(_)
JoinMembers(ms) ==
  IF ms = <<>> THEN <<>>
  ELSE IF Len(ms) = 1 THEN ms[1]
  ELSE ms[1] \o <<",">> \o JoinMembers(Tail(ms))

ObjectText(ms) == <<"{">> \o JoinMembers(ms) \o <<"}">>

\* serialize(O) for the schema-valid object O whose translatedText is tt;
\* gap is what the encoder writes between the colon and the value.
ResponseText(tt, gap) ==
  ObjectText(<< Member(translatedTextKey, gap \o StrText(tt)),
                Member(explanationKey, StrText(<<"e">>)),
                Member(slangUsedKey, <<"[", "]">>),
                Member(vibeKey, StrText(<<"v">>)) >>)

\* The same object without its vibe member.
ResponseTextNoVibe(tt) ==
  ObjectText(<< Member(translatedTextKey, StrText(tt)),
                Member(explanationKey, StrText(<<"e">>)),
                Member(slangUsedKey, <<"[", "]">>) >>)

\* A slangUsed entry that has a term and lacks its meaning and context.
ResponseTextSlangTermOnly(tt) ==
  ObjectText(<< Member(translatedTextKey, StrText(tt)),
                Member(explanationKey, StrText(<<"e">>)),
                Member(slangUsedKey,
                       <<"[">> \o ObjectText(<< Member(termKey, StrText(<<"t">>)) >>)
                               \o <<"]">>),
                Member(vibeKey, StrText(<<"v">>)) >>)

\* Whether a parsed value has the four required members in their declared
\* shapes, each slangUsed entry with term, meaning and context.
SchemaValid(x) ==
  /\ x.t = "obj"
  /\ Get(x, translatedTextKey).t = "str"
  /\ Get(x, explanationKey).t = "str"
  /\ Get(x, vibeKey).t = "str"
  /\ Get(x, slangUsedKey).t = "arr"
  /\ \A k \in 1..Len(Get(x, slangUsedKey).v) :
       LET entry == Get(x, slangUsedKey).v[k] IN
       /\ Get(entry, termKey).t = "str"
       /\ Get(entry, meaningKey).t = "str"
       /\ Get(entry, contextKey).t = "str"

\* Translations the endpoint may produce (as decoded text).
Translations ==
  { <<"a", "b">>,
    <<"a", Quote, Newline>>,
    <<"a", Backslash, "b">>,
    <<"a", Tab>>,
    <<Quote, Backslash>>,
    <<>> }

ValidBodies == {ResponseText(tt, <<>>) : tt \in Translations}

InvalidSchemaBodies ==
  { ResponseTextNoVibe(<<"a", "b">>),
    ResponseTextSlangTermOnly(<<"a", "b">>),
    <<"n", "u", "l", "l">> }

\* A stream that ends before the object is complete.
BrokenBodies ==
  { SubSeq(ResponseText(<<"a", "b">>, <<>>), 1, 30), <<"{">> }

\* A stream that carries no text at all.
EmptyBody == <<>>

StreamBodies == ValidBodies \cup InvalidSchemaBodies \cup BrokenBodies \cup {EmptyBody}

\* The bodies of the UI-level specification.
UiBodies ==
  { ResponseText(<<"a", "b">>, <<>>),
    SubSeq(ResponseText(<<"a", "b">>, <<>>), 1, 30),
    EmptyBody }

\* Errors the transport rejects with: [name, message].
TransportError(msg) == [name |-> "Error", message |-> msg]

TransportErrors ==
  { TransportError(<<"4","2","9">>),
    TransportError(<<"4","0","3">>),
    TransportError(<<"A","P","I","_","K","E","Y","_","I","N","V","A","L","I","D">>),
    TransportError(<<"S","A","F","E","T","Y">>),
    TransportError(<<"b","l","o","c","k","e","d">>),
    TransportError(<<"f","e","t","c","h">>),
    TransportError(<<>>) }

UiTransportErrors ==
  { TransportError(<<"4","2","9">>),
    TransportError(<<"f","e","t","c","h">>) }

\* The message of the SyntaxError JSON.parse throws depends on the engine and
\* on the text: it may quote the text or give a position, so it may hold the
\* digits 429.
SyntaxErrors ==
  { [name |-> "SyntaxError", message |-> <<"e","n","d">>],
    [name |-> "SyntaxError", message |-> <<"a","t"," ","4","2","9">>] }

\* ------------------------------------------------------------- JSON.stringify
\* The own properties of a parsed object, as the JavaScript object holds
\* them: one per name, in the order of first appearance, with the value of
\* the last appearance.
OwnProperties(x) ==
  LET firsts == {k \in 1..Len(x.v) : \A j \in 1..(k - 1) : x.v[j][1] # x.v[k][1]}
      Nth(n) == CHOOSE k \in firsts : Cardinality({j \in firsts : j < k}) = n - 1
  IN [n \in 1..Cardinality(firsts) |-> <<x.v[Nth(n)][1], Get(x, x.v[Nth(n)][1])>>]

\* JSON.stringify(x) of a value that JSON.parse gave, or of null.
RECURSIVE Stringify(_)
Stringify(x) ==
  CASE x.t = "str" -> StrText(x.v)
    [] x.t = "num" -> x.v
    [] x.t = "obj" ->
         LET props == OwnProperties(x) IN
         ObjectText([n \in 1..Len(props) |->
                       StrText(props[n][1]) \o <<":">> \o Stringify(props[n][2])])
    [] x.t = "arr" ->
         <<"[">> \o JoinMembers([n \in 1..Len(x.v) |-> Stringify(x.v[n])]) \o <<"]">>
    [] x.t = "true" -> <<"t", "r", "u", "e">>
    [] x.t = "false" -> <<"f", "a", "l", "s", "e">>
    [] OTHER -> <<"n", "u", "l", "l">>

\* A history item as JSON.parse gives it back from the text JSON.stringify
\* wrote: the text typed and the result go through the encoding; id,
\* timestamp and the three settings are a UUID, an integer and identifiers,
\* which the encoding writes as they are.
Persisted(item) ==
  [item EXCEPT !.inputText = JsonParse(Stringify(JStr(item.inputText))).val.v,
               !.result = JsonParse(Stringify(item.result)).val]

\* PersistedList of a write that fails to reach the storage of a list that
\* is not empty.
PersistedListDropsWrite(list) == <<>>

\* JSON.parse(localStorage.getItem(STORAGE_KEY)) after
\* localStorage.setItem(STORAGE_KEY, JSON.stringify(list)).
PersistedList(list) == [k \in 1..Len(list) |-> Persisted(list[k])]

\* ------------------------------------------------------------- the directive
\* A template literal is the sequence of its pieces: the lines of its fixed
\* text, as written, and the values put in; the text to translate is put in
\* character by character.
DetectContext == "the source language is unknown, please DETECT IT automatically"
NamedContextHead == "the source language is "

\* sourceContext that names the language in both branches.
SourceContextAlwaysNamed(sourceLang) == <<NamedContextHead, sourceLang>>

\* const sourceContext = sourceLang === 'auto' ? ... : ...
SourceContext(sourceLang) ==
  IF sourceLang = "auto" THEN <<DetectContext>>
  ELSE <<NamedContextHead, sourceLang>>

\* let stylisticContext = ""; if (vibeMode === 'formal') ... else if ...
StylisticContext(vibeMode, targetLang) ==
  IF vibeMode = "formal" THEN
    << "Translate using formal, grammatically perfect, and standard \"textbook\" ",
       targetLang,
       ". Use full words, no contractions, and proper sentence structure. Avoid code-switching." >>
  ELSE IF vibeMode = "casual" THEN
    << "Translate using \"Real Talk\" ",
       targetLang,
       ". \n",
       "    - PRIORITY: Brevity and natural flow. \n",
       "    - STRUCTURE: Use Predicate-First structure. \n",
       "    - CONTRACTIONS: Use native shortcuts like \"'yung\", \"'to\", \"dun\", \"n'yo\". \n",
       "    - VIBE: Sound like a native speaker. Drop redundant pronouns." >>
  ELSE IF vibeMode = "taglish" THEN
    << "Translate into modern \"Urban Taglish\" (Manila style). \n",
       "    - MIXING: Seamlessly blend English and Tagalog as urban Filipinos do. \n",
       "    - STYLE: Use modern inflections. \n",
       "    - SLANG: Include current social media terms. \n",
       "    - FLOW: It should sound like a casual chat message." >>
  ELSE <<>>

\* const prompt = `...`
Prompt(text, sourceLang, targetLang, vibeMode) ==
    << "\n",
         "    Translate the following text from " >>
    \o SourceContext(sourceLang)
    \o << " to ",
         targetLang,
         ".\n",
         "    \n",
         "    STYLE REQUIREMENT: \n",
         "    " >>
    \o StylisticContext(vibeMode, targetLang)
    \o << "\n",
         "    \n",
         "    SMART CORRECTION & SANITY GUARD:\n",
         "    - The source text may contain spelling errors. Predict the intended word.\n",
         "    - CRITICAL: DO NOT sexualize the translation unless the source text is explicitly and unmistakably sexual. \n",
         "    - If the user uses \"shit\" or other common expletives as intensifiers (e.g., \"intense shit\"), treat them as exclamations of intensity or the literal act. \n",
         "    - NEVER map \"shit\" to anatomical references unless specified.\n",
         "    \n",
         "    TRANSLITERATION REQUIREMENT:\n",
         "    - If ",
         targetLang,
         " uses non-Latin characters (like Chinese Hanzi, Japanese Kanji/Kana, or Korean Hangul), you MUST provide a phonetic pronunciation in the 'transliteration' field (e.g., Pinyin for Chinese, Romaji for Japanese). \n",
         "    - If the target language uses Latin script, leave 'transliteration' empty or null.\n",
         "\n",
         "    CRITICAL FOR TAGALOG: \n",
         "    - If mode is NOT formal, NEVER use \"ay\" as a linker if it can be avoided. \n",
         "    - Use \"parang\" instead of \"tila\".\n",
         "    \n",
         "    Text to translate: \"" >>
    \o text
    \o << "\"\n",
         "  " >>

\* ---------------------------------------------------------------- the state
VARIABLES
  inputText,            \* App state: the text area
  sourceLang,           \* App state
  targetLang,           \* App state
  vibeMode,             \* App state
  result,               \* App state: TranslationResult | null
  streamingText,        \* App state
  isLoading,            \* App state
  isStreaming,          \* App state
  errorKey,             \* App state: string | null ("none")
  history,              \* App state: HistoryItem[]
  isOnline,             \* App state, set by the online/offline listeners
  lastTranslatedState,  \* the ref handleTranslate compares with
  storedHistory,        \* localStorage[STORAGE_KEY]
  navOnline,            \* navigator.onLine
  sess,                 \* the calls of translateWithSlangStream, by session id
  nextSession,          \* the id the next call takes
  translateTick,        \* flips at every call of handleTranslate
  tts                   \* the latest call of speakText

appVars == <<inputText, sourceLang, targetLang, vibeMode, result, streamingText,
             isLoading, isStreaming, errorKey, history, isOnline,
             lastTranslatedState, storedHistory>>
vars == <<inputText, sourceLang, targetLang, vibeMode, result, streamingText,
          isLoading, isStreaming, errorKey, history, isOnline,
          lastTranslatedState, storedHistory, navOnline, sess,
          nextSession, translateTick, tts>>

\* slice(0, 20) of updateHistory.
HistoryLimit == 20

Sessions == 1..MaxSessions

\* What the user may type and select in the application specification.
InputTexts == { <<>>, <<" ">>, <<"h", "i", " ">> }
SourceLangs == {"auto", "en"}
TargetLangs == {"tl"}
VibeModes == {"casual"}

\* lastTranslatedState.current: set is whether the ref holds a record. While
\* it is null the other fields keep the request it held last, which the
\* program cannot read.
NoLast == [set |-> FALSE, text |-> <<>>, source |-> "", target |-> "", vibe |-> ""]

IdleSession ==
  [ pc |-> "idle",        \* idle, requesting, streaming, completed, failed
    text |-> <<>>, source |-> "", target |-> "", vibe |-> "",
    hist |-> <<>>,        \* the history of the render whose handler runs
    prompt |-> <<>>,      \* the directive sent to the endpoint
    pending |-> <<>>,     \* what the endpoint has still to send
    fullText |-> <<>>,    \* the accumulator
    chunks |-> 0,         \* chunks consumed
    calls |-> <<>>,       \* the values onChunk was called with, in order
    returned |-> JNone,   \* the value the call resolved with
    thrown |-> "none",    \* the message of the Error the call rejected with
    failedIn |-> "none" ] \* where it failed: requesting, streaming, finalizing
\* When a call settles, its parameters and locals are gone: the record keeps
\* how it settled and what it had reported.

\* No call of speakText yet.
IdleTts ==
  [ pc |-> "idle",        \* idle, requesting, settled
    text |-> JNone,       \* the argument of the call
    payload |-> "none",   \* what the response carried: absent or data
    played |-> FALSE,     \* source.start() was reached
    logged |-> FALSE,     \* the catch block ran
    rejected |-> FALSE ]  \* the promise of the call rejected

Init ==
  /\ inputText = <<>>
  /\ sourceLang = "auto"
  /\ targetLang = "tl"
  /\ vibeMode = "casual"
  /\ result = JNone
  /\ streamingText = <<>>
  /\ isLoading = FALSE
  /\ isStreaming = FALSE
  /\ errorKey = "none"
  /\ history = <<>>
  /\ storedHistory = <<>>
  /\ lastTranslatedState = NoLast
  /\ navOnline \in BOOLEAN
  /\ isOnline = navOnline
  /\ sess = [s \in Sessions |-> IdleSession]
  /\ nextSession = 1
  /\ translateTick = FALSE
  /\ tts = IdleTts

\* ------------------------------------------------------------- connectivity
\* navigator.onLine changes and the window's online / offline listener
\* (handleOnline, handleOffline) runs.
NetworkChange ==
  /\ navOnline' = ~navOnline
  /\ isOnline' = ~navOnline
  /\ UNCHANGED <<inputText, sourceLang, targetLang, vibeMode, result,
                 streamingText, isLoading, isStreaming, errorKey, history,
                 lastTranslatedState, storedHistory, sess, nextSession,
                 translateTick, tts>>

\* ------------------------------------------------------------ handleTranslate
SameAsLast(textToTranslate) ==
  /\ lastTranslatedState.set
  /\ lastTranslatedState.text = textToTranslate
  /\ lastTranslatedState.source = sourceLang
  /\ lastTranslatedState.target = targetLang
  /\ lastTranslatedState.vibe = vibeMode

\* TranslateOutcome without its comparison with the last translated request.
TranslateOutcomeNoRepeatCheck ==
  LET textToTranslate == Trim(inputText) IN
  IF textToTranslate = <<>> THEN "empty"
  ELSE IF ~isOnline THEN "offline"
  ELSE "start"

\* TranslateOutcome without its test of the trimmed text.
TranslateOutcomeNoEmptyCheck ==
  LET textToTranslate == Trim(inputText) IN
  IF SameAsLast(textToTranslate) /\ Truthy(result) THEN "same"
  ELSE IF ~isOnline THEN "offline"
  ELSE "start"

\* TranslateOutcome without its connectivity check.
TranslateOutcomeNoOfflineCheck ==
  LET textToTranslate == Trim(inputText) IN
  IF textToTranslate = <<>> THEN "empty"
  ELSE IF SameAsLast(textToTranslate) /\ Truthy(result) THEN "same"
  ELSE "start"

\* Which return of handleTranslate a call takes in the current state.
TranslateOutcome ==
  LET textToTranslate == Trim(inputText) IN
  IF textToTranslate = <<>> THEN "empty"
  ELSE IF SameAsLast(textToTranslate) /\ Truthy(result) THEN "same"
  ELSE IF ~isOnline THEN "offline"
  ELSE "start"

\* The synchronous part of handleTranslate, up to its await.
HandleTranslate ==
  /\ translateTick' = ~translateTick
  /\ CASE TranslateOutcome \in {"empty", "same"} ->
            UNCHANGED <<appVars, sess, nextSession>>
       [] TranslateOutcome = "offline" ->
            /\ errorKey' = "OFFLINE"
            /\ UNCHANGED <<inputText, sourceLang, targetLang, vibeMode, result,
                           streamingText, isLoading, isStreaming, history,
                           isOnline, lastTranslatedState, storedHistory, sess,
                           nextSession>>
       [] OTHER ->
            /\ nextSession <= MaxSessions
            /\ isLoading' = TRUE
            /\ isStreaming' = TRUE
            /\ streamingText' = <<>>
            /\ result' = JNone
            /\ errorKey' = "none"
            /\ sess' = [sess EXCEPT ![nextSession] =
                          [IdleSession EXCEPT !.pc = "requesting",
                                              !.text = Trim(inputText),
                                              !.source = sourceLang,
                                              !.target = targetLang,
                                              !.vibe = vibeMode,
                                              !.hist = history,
                                              !.prompt = Prompt(Trim(inputText),
                                                                sourceLang,
                                                                targetLang,
                                                                vibeMode)]]
            /\ nextSession' = nextSession + 1
            /\ UNCHANGED <<inputText, sourceLang, targetLang, vibeMode, history,
                           isOnline, lastTranslatedState, storedHistory>>
  /\ UNCHANGED <<navOnline, tts>>

\* The translate button; disabled={isLoading || isStreaming || !inputText.trim()
\* || (!isOnline && vibeMode !== 'formal')}.
ClickTranslate ==
  /\ ~(isLoading \/ isStreaming \/ Trim(inputText) = <<>>
         \/ (~isOnline /\ vibeMode # "formal"))
  /\ HandleTranslate

\* handleKeyDown: Enter without Shift in the text area.
PressEnter == HandleTranslate

\* The retry button of ErrorState, rendered while errorKey is set.
ClickRetry ==
  /\ errorKey # "none"
  /\ HandleTranslate

\* --------------------------------------------------- the other UI handlers
\* onChange of the text area.
SetInputText(t) ==
  /\ inputText' = t
  /\ errorKey' = "none"
  /\ UNCHANGED <<sourceLang, targetLang, vibeMode, result, streamingText,
                 isLoading, isStreaming, history, isOnline, lastTranslatedState,
                 storedHistory, navOnline, sess, nextSession,
                 translateTick, tts>>

\* onChange of the two LanguageSelectors.
SetSourceLang(l) ==
  /\ sourceLang' = l
  /\ errorKey' = "none"
  /\ UNCHANGED <<inputText, targetLang, vibeMode, result, streamingText,
                 isLoading, isStreaming, history, isOnline, lastTranslatedState,
                 storedHistory, navOnline, sess, nextSession,
                 translateTick, tts>>

SetTargetLang(l) ==
  /\ targetLang' = l
  /\ errorKey' = "none"
  /\ UNCHANGED <<inputText, sourceLang, vibeMode, result, streamingText,
                 isLoading, isStreaming, history, isOnline, lastTranslatedState,
                 storedHistory, navOnline, sess, nextSession,
                 translateTick, tts>>

\* onClick of a vibe option.
SetVibeMode(v) ==
  /\ vibeMode' = v
  /\ errorKey' = "none"
  /\ UNCHANGED <<inputText, sourceLang, targetLang, result, streamingText,
                 isLoading, isStreaming, history, isOnline, lastTranslatedState,
                 storedHistory, navOnline, sess, nextSession,
                 translateTick, tts>>

RestoreFromHistory(item) ==
  /\ inputText' = item.inputText
  /\ sourceLang' = item.sourceLang
  /\ targetLang' = item.targetLang
  /\ vibeMode' = item.vibeMode
  /\ result' = item.result
  /\ streamingText' = <<>>
  /\ errorKey' = "none"
  /\ lastTranslatedState' = [set |-> TRUE, text |-> item.inputText,
                             source |-> item.sourceLang,
                             target |-> item.targetLang, vibe |-> item.vibeMode]
  /\ UNCHANGED <<isLoading, isStreaming, history, isOnline, storedHistory,
                 navOnline, sess, nextSession, translateTick, tts>>

\* The history list and its clear button are rendered while history is not
\* empty.
HandleClearHistory ==
  /\ history # <<>>
  /\ history' = <<>>
  /\ storedHistory' = PersistedList(<<>>)
  /\ lastTranslatedState' = [lastTranslatedState EXCEPT !.set = FALSE]
  /\ UNCHANGED <<inputText, sourceLang, targetLang, vibeMode, result,
                 streamingText, isLoading, isStreaming, errorKey, isOnline,
                 navOnline, sess, nextSession, translateTick, tts>>

\* ------------------------------------------------- translateWithSlangStream
\* slice(0, n) that keeps everything.
TakeAll(seq, n) == seq

Take(seq, n) == SubSeq(seq, 1, IF Len(seq) < n THEN Len(seq) ELSE n)

\* updateHistory, with the history its closure holds.
UpdateHistory(closureHistory, newItem) ==
  Take(<<newItem>> \o closureHistory, HistoryLimit)

\* Reject with a catch block that also forgets the last translated request.
RejectForgetsLast(s, error, phase) ==
  LET kind == Classify(error, navOnline) IN
  /\ sess' = [sess EXCEPT ![s] = [IdleSession EXCEPT !.pc = "failed",
                                                     !.thrown = kind,
                                                     !.failedIn = phase,
                                                     !.calls = sess[s].calls]]
  /\ errorKey' = kind
  /\ isLoading' = FALSE
  /\ isStreaming' = FALSE
  /\ lastTranslatedState' = NoLast
  /\ UNCHANGED <<inputText, sourceLang, targetLang, vibeMode, result,
                 streamingText, history, isOnline, storedHistory, navOnline,
                 nextSession, translateTick, tts>>

\* Reject without handleTranslate's finally block.
RejectNoFinally(s, error, phase) ==
  LET kind == Classify(error, navOnline) IN
  /\ sess' = [sess EXCEPT ![s] = [IdleSession EXCEPT !.pc = "failed",
                                                     !.thrown = kind,
                                                     !.failedIn = phase,
                                                     !.calls = sess[s].calls]]
  /\ errorKey' = kind
  /\ UNCHANGED <<inputText, sourceLang, targetLang, vibeMode, result,
                 streamingText, isLoading, isStreaming, history, isOnline,
                 lastTranslatedState, storedHistory, navOnline, nextSession,
                 translateTick, tts>>

\* The session rejects: the catch block classifies, handleTranslate's catch
\* and finally run.
Reject(s, error, phase) ==
  LET kind == Classify(error, navOnline) IN
  /\ sess' = [sess EXCEPT ![s] = [IdleSession EXCEPT !.pc = "failed",
                                                     !.thrown = kind,
                                                     !.failedIn = phase,
                                                     !.calls = sess[s].calls]]
  /\ errorKey' = kind
  /\ isLoading' = FALSE
  /\ isStreaming' = FALSE
  /\ UNCHANGED <<inputText, sourceLang, targetLang, vibeMode, result,
                 streamingText, history, isOnline, lastTranslatedState,
                 storedHistory, navOnline, nextSession,
                 translateTick, tts>>

\* Date.now() at a completion, as a logical clock: the completions so far.
Now == Cardinality({t \in Sessions : sess[t].pc = "completed"}) + 1

\* The session resolves with value: the rest of handleTranslate's try block
\* and its finally run.
Resolve(s, value) ==
  LET newItem == [id |-> s, timestamp |-> Now, inputText |-> sess[s].text,
                  sourceLang |-> sess[s].source, targetLang |-> sess[s].target,
                  vibeMode |-> sess[s].vibe, result |-> value]
      newHistory == UpdateHistory(sess[s].hist, newItem)
  IN
  /\ sess' = [sess EXCEPT ![s] = [IdleSession EXCEPT !.pc = "completed",
                                                     !.returned = value,
                                                     !.calls = sess[s].calls]]
  /\ result' = value
  /\ streamingText' = <<>>
  /\ history' = newHistory
  /\ storedHistory' = PersistedList(newHistory)
  /\ lastTranslatedState' = [set |-> TRUE, text |-> sess[s].text,
                             source |-> sess[s].source,
                             target |-> sess[s].target, vibe |-> sess[s].vibe]
  /\ isLoading' = FALSE
  /\ isStreaming' = FALSE
  /\ UNCHANGED <<inputText, sourceLang, targetLang, vibeMode, errorKey,
                 isOnline, navOnline, nextSession, translateTick, tts>>

\* generateContentStream resolves: the endpoint accepted the request and
\* will send body.
OpenAccept(s, body) ==
  /\ sess[s].pc = "requesting"
  /\ sess' = [sess EXCEPT ![s].pc = "streaming", ![s].pending = body]
  /\ UNCHANGED <<appVars, navOnline, nextSession, translateTick, tts>>

\* generateContentStream rejects.
OpenReject(s, error) ==
  /\ sess[s].pc = "requesting"
  /\ Reject(s, error, "requesting")

\* What the loop body does with the buffer after an append: whether it
\* calls onChunk, and with which value.
Extract(buffer) ==
  LET m == RegexMatch(buffer) IN
  [found |-> Reports(m), value |-> Decode(m.group)]

\* Accumulate, keeping only the newest fragment.
AccumulateReplace(fullText, part) == part

\* fullText += part
Accumulate(fullText, part) == fullText \o part

\* Chunk, with one accumulator that every running session appends to.
ChunkShared(s, n) ==
  LET part == SubSeq(sess[s].pending, 1, n)
      buffer == Accumulate(sess[s].fullText, part)
      x == IF n = 0 THEN [found |-> FALSE, value |-> <<>>] ELSE Extract(buffer)
  IN
  /\ sess[s].pc = "streaming"
  /\ n \in 0..Len(sess[s].pending)
  /\ sess' = [t \in Sessions |->
               IF t = s
               THEN [sess[s] EXCEPT
                       !.pending = SubSeq(sess[s].pending, n + 1, Len(sess[s].pending)),
                       !.fullText = buffer,
                       !.chunks = sess[s].chunks + 1,
                       !.calls = IF x.found THEN Append(sess[s].calls, x.value)
                                 ELSE sess[s].calls]
               ELSE IF sess[t].pc = "streaming"
               THEN [sess[t] EXCEPT !.fullText = Accumulate(sess[t].fullText, part)]
               ELSE sess[t]]
  /\ IF x.found
     THEN /\ streamingText' = x.value
          /\ isLoading' = FALSE
     ELSE UNCHANGED <<streamingText, isLoading>>
  /\ UNCHANGED <<inputText, sourceLang, targetLang, vibeMode, result,
                 isStreaming, errorKey, history, isOnline, lastTranslatedState,
                 storedHistory, navOnline, nextSession,
                 translateTick, tts>>

\* One iteration of the for-await loop on a chunk whose text is the next n
\* characters the endpoint sends; n = 0 is a chunk without text, which
\* `if (part)` skips.
Chunk(s, n) ==
  LET part == SubSeq(sess[s].pending, 1, n)
      buffer == Accumulate(sess[s].fullText, part)
      x == IF n = 0 THEN [found |-> FALSE, value |-> <<>>] ELSE Extract(buffer)
  IN
  /\ sess[s].pc = "streaming"
  /\ n \in 0..Len(sess[s].pending)
  /\ sess' = [sess EXCEPT
                ![s].pending = SubSeq(sess[s].pending, n + 1, Len(sess[s].pending)),
                ![s].fullText = buffer,
                ![s].chunks = sess[s].chunks + 1,
                ![s].calls = IF x.found THEN Append(sess[s].calls, x.value)
                             ELSE sess[s].calls]
  /\ IF x.found
     THEN /\ streamingText' = x.value
          /\ isLoading' = FALSE
     ELSE UNCHANGED <<streamingText, isLoading>>
  /\ UNCHANGED <<inputText, sourceLang, targetLang, vibeMode, result,
                 isStreaming, errorKey, history, isOnline, lastTranslatedState,
                 storedHistory, navOnline, nextSession,
                 translateTick, tts>>

\* The stream rejects while it is consumed.
StreamError(s, error) ==
  /\ sess[s].pc = "streaming"
  /\ Reject(s, error, "streaming")

\* The stream ends: JSON.parse(fullText) is returned, or throws into the
\* catch block.
StreamEnd(s) ==
  /\ sess[s].pc = "streaming"
  /\ sess[s].pending = <<>>
  /\ LET parsed == JsonParse(sess[s].fullText) IN
     IF parsed.ok THEN Resolve(s, parsed.val)
     ELSE \E error \in SyntaxErrors : Reject(s, error, "finalizing")

\* Chunk sizes: packets of the transport (UI level), and every cut into at
\* most MaxChunks chunks (session level).
PacketSizes(s) ==
  {n \in 1..Len(sess[s].pending) : n = PacketSize \/ n = Len(sess[s].pending)}

AnySizes(s) ==
  {n \in 0..Len(sess[s].pending) :
     /\ sess[s].chunks < MaxChunks
     /\ n = Len(sess[s].pending) \/ sess[s].chunks + 1 < MaxChunks}

\* ------------------------------------------------------------------ speakText
AsciiWhitespace == {" ", "\t", "\n", "\f", "\r"}

Base64Alphabet ==
  {"A", "B", "C", "D", "E", "F", "G", "H", "I", "J", "K", "L", "M",
   "N", "O", "P", "Q", "R", "S", "T", "U", "V", "W", "X", "Y", "Z",
   "a", "b", "c", "d", "e", "f", "g", "h", "i", "j", "k", "l", "m",
   "n", "o", "p", "q", "r", "s", "t", "u", "v", "w", "x", "y", "z",
   "0", "1", "2", "3", "4", "5", "6", "7", "8", "9", "+", "/"}

IsNotWhitespace(c) == c \notin AsciiWhitespace

\* Up to two "=" taken off the end.
DropPadding(d) ==
  IF Len(d) >= 2 /\ d[Len(d)] = "=" /\ d[Len(d) - 1] = "="
  THEN SubSeq(d, 1, Len(d) - 2)
  ELSE IF Len(d) >= 1 /\ d[Len(d)] = "=" THEN SubSeq(d, 1, Len(d) - 1)
  ELSE d

\* atob(data): whether it returns, and the length of the string it returns
\* (one character per decoded byte); it throws InvalidCharacterError where
\* ok is FALSE.
Atob(data) ==
  LET stripped == SelectSeq(data, IsNotWhitespace)
      d == IF Len(stripped) % 4 = 0 THEN DropPadding(stripped) ELSE stripped
  IN IF Len(d) % 4 = 1 \/ \E k \in 1..Len(d) : d[k] \notin Base64Alphabet
     THEN [ok |-> FALSE, length |-> 0]
     ELSE [ok |-> TRUE, length |-> (Len(d) * 6) \div 8]

\* What a speech response carries at
\* candidates?.[0]?.content?.parts?.[0]?.inlineData?.data.
PayloadChars == {"A", "=", " ", "!"}

RECURSIVE PayloadTexts(_)
PayloadTexts(n) ==
  IF n = 0 THEN {<<>>}
  ELSE LET shorter == PayloadTexts(n - 1) IN
       shorter \cup {t \o <<c>> : t \in shorter, c \in PayloadChars}

SpeechPayloads ==
  {[present |-> FALSE, data |-> <<>>]}
    \cup {[present |-> TRUE, data |-> d] : d \in PayloadTexts(MaxPayloadLen)}

\* The body of speakText's try block after the response: "silent" where it
\* returns at `if (!base64Audio)`, "played" where it reaches source.start(),
\* "threw" where a statement throws; audioOk is whether the Web Audio calls
\* of the environment succeed.
SpeakOutcome(payload, audioOk) ==
  IF ~payload.present \/ payload.data = <<>> THEN "silent"
  ELSE IF ~audioOk THEN "threw"
  ELSE IF ~Atob(payload.data).ok THEN "threw"
  ELSE IF Atob(payload.data).length % 2 # 0 THEN "threw"
  ELSE IF Atob(payload.data).length = 0 THEN "threw"
  ELSE "played"

\* SpeakSettle without the catch block.
SpeakSettleNoCatch(outcome) ==
  [played |-> outcome = "played", logged |-> FALSE, rejected |-> outcome = "threw"]

\* How the call ends: the catch block logs what the try block threw and the
\* async function returns.
SpeakSettle(outcome) ==
  [played |-> outcome = "played", logged |-> outcome = "threw", rejected |-> FALSE]

\* handleSpeak: speakText(result.translatedText), not awaited.
HandleSpeak ==
  /\ IF Truthy(result) /\ isOnline
     THEN tts' = [IdleTts EXCEPT !.pc = "requesting",
                                 !.text = Get(result, translatedTextKey)]
     ELSE UNCHANGED tts
  /\ UNCHANGED <<appVars, navOnline, sess, nextSession, translateTick>>

\* The speak button of the result panel, rendered while
\* (result || streamingText) && !errorKey, disabled={!isOnline || isStreaming}.
ClickSpeak ==
  /\ Truthy(result) \/ streamingText # <<>>
  /\ errorKey = "none"
  /\ isOnline
  /\ ~isStreaming
  /\ tts.pc # "requesting"
  /\ HandleSpeak

SpeakEnd(outcome, carried) ==
  /\ tts.pc = "requesting"
  /\ tts' = [pc |-> "settled", text |-> tts.text, payload |-> carried,
             played |-> SpeakSettle(outcome).played,
             logged |-> SpeakSettle(outcome).logged,
             rejected |-> SpeakSettle(outcome).rejected]
  /\ UNCHANGED <<appVars, navOnline, sess, nextSession, translateTick>>

\* ai.models.generateContent rejects.
SpeakReject == SpeakEnd("threw", "none")

\* ai.models.generateContent resolves with a response.
SpeakRespond(payload, audioOk) ==
  SpeakEnd(SpeakOutcome(payload, audioOk),
           IF payload.present THEN "data" ELSE "absent")

\* ------------------------------------------------------------ specifications
\* The application: every handler, up to MaxSessions sessions.
Next ==
  \/ ClickTranslate
  \/ PressEnter
  \/ ClickRetry
  \/ \E t \in InputTexts : SetInputText(t)
  \/ \E l \in SourceLangs : SetSourceLang(l)
  \/ \E l \in TargetLangs : SetTargetLang(l)
  \/ \E v \in VibeModes : SetVibeMode(v)
  \/ \E k \in 1..Len(history) : RestoreFromHistory(history[k])
  \/ HandleClearHistory
  \/ NetworkChange
  \/ \E s \in Sessions, body \in UiBodies : OpenAccept(s, body)
  \/ \E s \in Sessions, error \in UiTransportErrors : OpenReject(s, error)
  \/ \E s \in Sessions : \E n \in PacketSizes(s) : Chunk(s, n)
  \/ \E s \in Sessions, error \in UiTransportErrors : StreamError(s, error)
  \/ \E s \in Sessions : StreamEnd(s)

Spec == Init /\ [][Next]_vars

\* One session of translateWithSlangStream, started from the text area:
\* every body, every transport error, every cut into chunks.
InitStream ==
  /\ Init
  /\ nextSession = 1

NextStream ==
  \/ \E t \in {<<"h", "i", " ">>, <<" ">>} : inputText = <<>> /\ SetInputText(t)
  \/ nextSession = 1 /\ PressEnter
  \/ NetworkChange
  \/ \E body \in StreamBodies : OpenAccept(1, body)
  \/ \E error \in TransportErrors : OpenReject(1, error)
  \/ \E n \in AnySizes(1) : Chunk(1, n)
  \/ \E error \in TransportErrors : StreamError(1, error)
  \/ StreamEnd(1)

SpecStream == InitStream /\ [][NextStream]_vars

\* Speech: one translation, then the speak button and the answers of the
\* speech endpoint.
NextSpeak ==
  \/ \E t \in {<<"h", "i">>} : inputText = <<>> /\ SetInputText(t)
  \/ nextSession = 1 /\ ClickTranslate
  \/ NetworkChange
  \/ \E body \in ValidBodies : OpenAccept(1, body)
  \/ \E n \in PacketSizes(1) : Chunk(1, n)
  \/ StreamEnd(1)
  \/ ClickSpeak
  \/ SpeakReject
  \/ \E payload \in SpeechPayloads, audioOk \in BOOLEAN : SpeakRespond(payload, audioOk)

SpecSpeak == InitStream /\ [][NextSpeak]_vars

\* The history: the application starts with a stored history of 0,
\* HistoryLimit - 1 or HistoryLimit entries of earlier runs, online, and
\* translations complete, overlap, and are restored and cleared.
OldItem(k) ==
  [id |-> 0 - k, timestamp |-> 0 - k, inputText |-> <<"o">>,
   sourceLang |-> "auto", targetLang |-> "tl", vibeMode |-> "casual",
   result |-> JsonParse(ResponseText(<<"a", "b">>, <<>>)).val]

OldHistory == [k \in 1..HistoryLimit |-> OldItem(k)]

InitHistory ==
  /\ inputText = <<>>
  /\ sourceLang = "auto"
  /\ targetLang = "tl"
  /\ vibeMode = "casual"
  /\ result = JNone
  /\ streamingText = <<>>
  /\ isLoading = FALSE
  /\ isStreaming = FALSE
  /\ errorKey = "none"
  /\ \E n \in {0, HistoryLimit - 1, HistoryLimit} :
       /\ storedHistory = Take(OldHistory, n)
       /\ history = Take(OldHistory, n)
  /\ lastTranslatedState = NoLast
  /\ navOnline = TRUE
  /\ isOnline = TRUE
  /\ sess = [s \in Sessions |-> IdleSession]
  /\ nextSession = 1
  /\ translateTick = FALSE
  /\ tts = IdleTts

NextHistory ==
  \/ \E t \in {<<"h", "i">>} : SetInputText(t)
  \/ PressEnter
  \/ \E k \in 1..Len(history) : k <= 2 /\ RestoreFromHistory(history[k])
  \/ HandleClearHistory
  \/ \E s \in Sessions : OpenAccept(s, ResponseText(<<"a", "b">>, <<>>))
  \/ \E s \in Sessions : \E n \in PacketSizes(s) : Chunk(s, n)
  \/ \E s \in Sessions : StreamEnd(s)

SpecHistory == InitHistory /\ [][NextHistory]_vars

\* The extractor on growing buffers: session 1 is consuming a stream whose
\* text is the field head followed by up to MaxPieces pieces, one character
\* at a time or all the rest at once.
Pieces == {FieldHead, <<Quote>>, <<Backslash>>, <<"a">>, <<Newline>>}

RECURSIVE PieceTexts(_)
PieceTexts(n) ==
  IF n = 0 THEN {<<>>}
  ELSE LET shorter == PieceTexts(n - 1) IN
       shorter \cup {t \o p : t \in shorter, p \in Pieces}

\* Streams with a head that cannot match before the one that does.
TwoHeadTexts ==
  { FieldHead \o <<"a">> \o FieldHead \o <<Quote, "a", Quote>>,
    FieldHead \o <<Quote, Backslash, Newline, Quote>>
      \o FieldHead \o <<Quote, "a", Quote, "a">> }

ExtractTexts == {FieldHead \o t : t \in PieceTexts(MaxPieces)} \cup TwoHeadTexts

InitExtract ==
  /\ inputText = <<"h", "i">>
  /\ sourceLang = "auto"
  /\ targetLang = "tl"
  /\ vibeMode = "casual"
  /\ result = JNone
  /\ streamingText = <<>>
  /\ isLoading = TRUE
  /\ isStreaming = TRUE
  /\ errorKey = "none"
  /\ history = <<>>
  /\ storedHistory = <<>>
  /\ lastTranslatedState = NoLast
  /\ navOnline = TRUE
  /\ isOnline = TRUE
  /\ \E body \in ExtractTexts :
       sess = [s \in Sessions |->
                 IF s = 1
                 THEN [IdleSession EXCEPT !.pc = "streaming",
                                          !.text = <<"h", "i">>,
                                          !.source = "auto",
                                          !.target = "tl",
                                          !.vibe = "casual",
                                          !.prompt = Prompt(<<"h", "i">>, "auto",
                                                            "tl", "casual"),
                                          !.pending = body]
                 ELSE IdleSession]
  /\ nextSession = 2
  /\ translateTick = TRUE
  /\ tts = IdleTts

NextExtract ==
  \E n \in {1, Len(sess[1].pending)} : n >= 1 /\ Chunk(1, n)

SpecExtract == InitExtract /\ [][NextExtract]_vars

\* The directive: the application starts online with every text, source
\* language, target language and vibe of the sets below selected, and the
\* translation is requested.
PromptTexts == { <<>>, <<"h", "i">>, <<" ", Quote, "a", Backslash>> }
PromptSourceLangs == {"auto", "en", "tl", "ja"}
PromptTargetLangs == {"tl", "ja", "en"}
PromptVibeModes == {"formal", "casual", "taglish"}

InitPrompt ==
  /\ inputText \in PromptTexts
  /\ sourceLang \in PromptSourceLangs
  /\ targetLang \in PromptTargetLangs
  /\ vibeMode \in PromptVibeModes
  /\ result = JNone
  /\ streamingText = <<>>
  /\ isLoading = FALSE
  /\ isStreaming = FALSE
  /\ errorKey = "none"
  /\ history = <<>>
  /\ storedHistory = <<>>
  /\ lastTranslatedState = NoLast
  /\ navOnline = TRUE
  /\ isOnline = TRUE
  /\ sess = [s \in Sessions |-> IdleSession]
  /\ nextSession = 1
  /\ translateTick = FALSE
  /\ tts = IdleTts

NextPrompt ==
  \/ ~translateTick /\ ClickTranslate
  \/ ~translateTick /\ PressEnter

SpecPrompt == InitPrompt /\ [][NextPrompt]_vars

\* What the transport does in the specification of sessions to their end: a
\* valid body, a body that is cut, and a rejection.
SettleBodies ==
  { ResponseText(<<"a", "b">>, <<>>),
    SubSeq(ResponseText(<<"a", "b">>, <<>>), 1, 30) }

SettleErrors == { TransportError(<<"f","e","t","c","h">>) }

\* A call of translateWithSlangStream that has not settled, and one that has.
InFlight(s) == sess[s].pc \in {"requesting", "streaming"}

Settled(s) == sess[s].pc \in {"completed", "failed"}

\* Sessions to their end: translations are requested, overlapping, and the
\* transport of each session acts until the session has settled.
Transport(s) ==
  \/ \E body \in SettleBodies : OpenAccept(s, body)
  \/ \E error \in SettleErrors : OpenReject(s, error)
  \/ \E n \in PacketSizes(s) : Chunk(s, n)
  \/ \E error \in SettleErrors : StreamError(s, error)
  \/ StreamEnd(s)

NextSettle ==
  \/ \E t \in {<<"h", "i">>} : inputText = <<>> /\ SetInputText(t)
  \/ PressEnter
  \/ \E s \in Sessions : Transport(s)

\* The transport of a session that is in flight does not hang, and the
\* continuation of an await runs once its promise has settled: weak
\* fairness of Transport(s), written with what enables it, which is that s
\* is in flight.
SpecSettle ==
  /\ InitStream
  /\ [][NextSettle]_vars
  /\ \A s \in Sessions : []<>(~InFlight(s)) \/ []<><<Transport(s)>>_vars

\* Persistence: texts and translations with characters the encoding has to
\* escape, a result that is null, overlapping sessions, restores and clears;
\* each body arrives in one chunk.
PersistTexts == { <<"h", "i">>, <<Quote, "a", Backslash>> }

PersistBodies ==
  { ResponseText(<<"a", Quote, Newline>>, <<>>),
    ResponseText(<<Backslash, Tab>>, <<>>),
    <<"n", "u", "l", "l">> }

NextPersist ==
  \/ \E t \in PersistTexts : inputText = <<>> /\ SetInputText(t)
  \/ PressEnter
  \/ \E k \in 1..Len(history) : RestoreFromHistory(history[k])
  \/ HandleClearHistory
  \/ \E s \in Sessions, body \in PersistBodies : OpenAccept(s, body)
  \/ \E s \in Sessions : sess[s].pending # <<>> /\ Chunk(s, Len(sess[s].pending))
  \/ \E s \in Sessions : StreamEnd(s)

SpecPersist == InitStream /\ [][NextPersist]_vars

\* ------------------------------------------------------------------ claims
Sig403 == <<"4","0","3">>
SigApiKey == <<"A","P","I","_","K","E","Y","_","I","N","V","A","L","I","D">>
SigSafety == <<"S","A","F","E","T","Y">>
SigBlocked == <<"b","l","o","c","k","e","d">>

\* A step that is a call of handleTranslate.
TranslateCalled == translateTick' # translateTick

\* C1 as stated: every call of handleTranslate with non-empty text while the
\* connectivity flag reports offline sets the error kind OFFLINE and starts
\* no session.
C1_OfflineAlwaysFails ==
  [][(TranslateCalled /\ Trim(inputText) # <<>> /\ ~isOnline)
       => (errorKey' = "OFFLINE" /\ sess' = sess /\ nextSession' = nextSession)]_vars

\* C1, amended: a call of handleTranslate with non-empty text while the
\* connectivity flag reports offline never starts a session; it sets the
\* error kind OFFLINE unless the request repeats the last translated one
\* while a result is held, and then it changes nothing.
C1_OfflineFailsFast ==
  [][(TranslateCalled /\ Trim(inputText) # <<>> /\ ~isOnline)
       => /\ sess' = sess
          /\ nextSession' = nextSession
          /\ IF SameAsLast(Trim(inputText)) /\ Truthy(result)
             THEN errorKey' = errorKey
             ELSE errorKey' = "OFFLINE"]_vars

\* handleTranslate was called offline before any session was ever started,
\* and left the kind OFFLINE.
C1_Witness ==
  /\ translateTick
  /\ ~isOnline
  /\ errorKey = "OFFLINE"
  /\ nextSession = 1

\* C2 as stated: a stream that ends with a buffer that is valid JSON and
\* lacks a required member fails with PARSE_ERROR.
C2_MissingFieldFails ==
  [][(/\ StreamEnd(1)
      /\ JsonParse(sess[1].fullText).ok
      /\ ~SchemaValid(JsonParse(sess[1].fullText).val))
       => (sess'[1].pc = "failed" /\ sess'[1].thrown = "PARSE_ERROR")]_vars

\* A session has returned an object that has no vibe member.
C2_Witness ==
  /\ sess[1].pc = "completed"
  /\ sess[1].returned.t = "obj"
  /\ Get(sess[1].returned, vibeKey) = JNone

\* C3 as stated: a stream that ends with an empty buffer fails with
\* EMPTY_RESPONSE.
C3_EmptyStreamFails ==
  [][(StreamEnd(1) /\ sess[1].fullText = <<>>)
       => (sess'[1].pc = "failed" /\ sess'[1].thrown = "EMPTY_RESPONSE")]_vars

\* C4 as stated: online, a stream that ends with a non-empty buffer that is
\* not valid JSON fails with PARSE_ERROR, unless a rate-limit signal is
\* present.
C4_BrokenStreamFails ==
  [][(/\ StreamEnd(1)
      /\ sess[1].fullText # <<>>
      /\ ~JsonParse(sess[1].fullText).ok
      /\ navOnline
      /\ sess'[1].thrown # "QUOTA_EXCEEDED")
       => (sess'[1].pc = "failed" /\ sess'[1].thrown = "PARSE_ERROR")]_vars

\* C5 as stated: a failure observed while navigator.onLine is false is
\* reported as OFFLINE, whatever signal the error carries.
C5_OfflineFirst ==
  [][(sess[1].pc \in {"requesting", "streaming"} /\ sess'[1].pc = "failed"
        /\ ~navOnline)
       => sess'[1].thrown = "OFFLINE"]_vars

\* C6: a transport rejection whose message contains 429 fails the session
\* with QUOTA_EXCEEDED, on opening the request and while the stream is
\* consumed, and that kind reaches handleTranslate's errorKey.
C6_RateLimit ==
  [][\A error \in TransportErrors :
       (Includes(error.message, Sig429)
          /\ (OpenReject(1, error) \/ StreamError(1, error)))
         => (sess'[1].thrown = "QUOTA_EXCEEDED" /\ errorKey' = "QUOTA_EXCEEDED")]_vars

\* A session failed with QUOTA_EXCEEDED while its stream was consumed, after
\* it had reported progress.
C6_Witness ==
  /\ sess[1].pc = "failed"
  /\ sess[1].failedIn = "streaming"
  /\ sess[1].thrown = "QUOTA_EXCEEDED"
  /\ sess[1].calls # <<>>

\* C7 as stated: a rejection whose message holds 403 or API_KEY_INVALID is
\* reported as CONFIG_ERROR, one that holds SAFETY or blocked as SAFETY_BLOCK.
C7_AuthAndSafety ==
  [][\A error \in TransportErrors :
       (OpenReject(1, error) \/ StreamError(1, error))
         => /\ (Includes(error.message, Sig403) \/ Includes(error.message, SigApiKey))
                 => sess'[1].thrown = "CONFIG_ERROR"
            /\ (Includes(error.message, SigSafety) \/ Includes(error.message, SigBlocked))
                 => sess'[1].thrown = "SAFETY_BLOCK"]_vars

\* C8: a session that fails has thrown one kind of the closed set and has
\* returned nothing, handleTranslate's errorKey is that kind and the result
\* and the history are untouched; no session has both returned and thrown.
C8_OneKindNoResult ==
  /\ [](\A s \in Sessions :
          /\ sess[s].pc = "failed"
               => (sess[s].thrown \in ErrorKinds /\ sess[s].returned = JNone)
          /\ sess[s].pc # "failed" => sess[s].thrown = "none"
          /\ sess[s].pc # "completed" => sess[s].returned = JNone)
  /\ [][\A s \in Sessions :
          (sess[s].pc # "failed" /\ sess'[s].pc = "failed")
            => /\ sess[s].pc \in {"requesting", "streaming"}
               /\ errorKey' = sess'[s].thrown
               /\ errorKey' \in ErrorKinds
               /\ result' = result
               /\ history' = history
               /\ storedHistory' = storedHistory]_vars

\* One session has failed while a stream was consumed and another has
\* completed.
C8_Witness ==
  \E s, t \in Sessions :
    /\ sess[s].pc = "failed"
    /\ sess[s].failedIn = "streaming"
    /\ sess[t].pc = "completed"

\* C9 as stated: onChunk is never called twice in a row with the same value.
C9_NoRepeatedReport ==
  \A k \in 1..(Len(sess[1].calls) - 1) : sess[1].calls[k] # sess[1].calls[k + 1]

\* onChunk has been called twice in a row with one value.
C9_Witness ==
  \E k \in 1..(Len(sess[1].calls) - 1) : sess[1].calls[k] = sess[1].calls[k + 1]

\* C10 as stated: the values onChunk is called with never shrink, and each
\* is a prefix of the translatedText of the result the session returns.
C10_GrowingPrefixes ==
  /\ \A j, k \in 1..Len(sess[1].calls) :
       j < k => Len(sess[1].calls[j]) <= Len(sess[1].calls[k])
  /\ (sess[1].pc = "completed" /\ Get(sess[1].returned, translatedTextKey).t = "str")
       => \A k \in 1..Len(sess[1].calls) :
            IsPrefix(sess[1].calls[k], Get(sess[1].returned, translatedTextKey).v)

\* A session has returned a result after it reported a value that is not a
\* prefix of the result's translatedText.
C10_Witness ==
  /\ sess[1].pc = "completed"
  /\ Get(sess[1].returned, translatedTextKey).t = "str"
  /\ \E k \in 1..Len(sess[1].calls) :
       ~IsPrefix(sess[1].calls[k], Get(sess[1].returned, translatedTextKey).v)

\* The object the endpoint is sending to session 1, where what it sends is
\* the serialization of a schema-valid object.
Sending == JsonParse(sess[1].fullText \o sess[1].pending)

SendingValid ==
  /\ sess[1].pc = "streaming"
  /\ Sending.ok
  /\ SchemaValid(Sending.val)

\* C11 as stated: while a schema-valid object O is being received, what the
\* extractor gives on the accumulated buffer is absent or a prefix of
\* O.translatedText.
C11_PartialIsPrefix ==
  SendingValid
    => LET x == Extract(sess[1].fullText) IN
       x.found => IsPrefix(x.value, Get(Sending.val, translatedTextKey).v)

\* The buffer holds part of a schema-valid object and the extractor gives a
\* value that is not a prefix of the object's translatedText.
C11_Witness ==
  /\ SendingValid
  /\ sess[1].pending # <<>>
  /\ Extract(sess[1].fullText).found
  /\ ~IsPrefix(Extract(sess[1].fullText).value,
               Get(Sending.val, translatedTextKey).v)

\* C12 as stated: once the whole serialization of a schema-valid object O is
\* accumulated, the extractor gives exactly O.translatedText.
C12_FullIsExact ==
  (SendingValid /\ sess[1].pending = <<>> /\ sess[1].fullText # <<>>)
    => LET x == Extract(sess[1].fullText) IN
       /\ x.found
       /\ x.value = Get(Sending.val, translatedTextKey).v

\* The whole of a schema-valid object is accumulated and the extractor gives
\* a value that differs from its translatedText.
C12_Witness ==
  /\ SendingValid
  /\ sess[1].pending = <<>>
  /\ Extract(sess[1].fullText).found
  /\ Extract(sess[1].fullText).value # Get(Sending.val, translatedTextKey).v

\* The backslashes that immediately precede index k, not before index lo.
BackslashRun(s, k, lo) ==
  LET runs == {r \in 0..(k - lo) : \A d \in 1..r : s[k - d] = Backslash}
  IN CHOOSE r \in runs : \A other \in runs : other <= r

\* The quotes at or after lo that an even number of backslashes precede.
UnescapedQuotes(s, lo) ==
  {k \in lo..Len(s) : s[k] = Quote /\ BackslashRun(s, k, lo) % 2 = 0}

\* The heads in s that are followed by an opening quote: <<i, lo>> with i the
\* index of the head and lo the index after the opening quote.
OpenedValues(s) ==
  {<<i, SkipRegexWs(s, i + Len(FieldHead)) + 1>> : i \in
     {i \in 1..Len(s) :
        /\ HasAt(s, i, FieldHead)
        /\ SkipRegexWs(s, i + Len(FieldHead)) <= Len(s)
        /\ s[SkipRegexWs(s, i + Len(FieldHead))] = Quote}}

\* The least index at which the pattern matches, 0 where it matches nowhere.
MatchIndex(s) ==
  LET hits == {i \in 1..Len(s) : MatchAt(s, i).found}
  IN IF hits = {} THEN 0 ELSE CHOOSE i \in hits : \A h \in hits : i <= h

\* C13: on every buffer, a span the pattern extracts runs from the opening
\* quote to the first quote that is not preceded by an odd number of
\* backslashes; a quote after an odd number of backslashes never ends it.
C13_SpanEndsAtUnescapedQuote ==
  LET s == sess[1].fullText IN
  \A v \in OpenedValues(s) :
    LET m == MatchAt(s, v[1])
        ends == UnescapedQuotes(s, v[2])
    IN m.found =>
         /\ ends # {}
         /\ \A e \in ends : v[2] + Len(m.group) <= e
         /\ v[2] + Len(m.group) \in ends
         /\ m.group = SubSeq(s, v[2], v[2] + Len(m.group) - 1)

\* The extractor has matched a span that holds an escaped quote.
C13_Witness ==
  /\ RegexMatch(sess[1].fullText).found
  /\ Includes(RegexMatch(sess[1].fullText).group, <<Backslash, Quote>>)
  /\ sess[1].calls # <<>>

\* C14: when the buffer grows, a value the extractor gave is followed by a
\* value that is at least as long and that it is a prefix of, and the place
\* of the first match does not move.
C14_Monotone ==
  [][(sess[1].pc = "streaming" /\ sess'[1].pc = "streaming"
        /\ IsPrefix(sess[1].fullText, sess'[1].fullText)
        /\ sess[1].fullText # sess'[1].fullText)
       => /\ Extract(sess[1].fullText).found
               => /\ Extract(sess'[1].fullText).found
                  /\ Len(Extract(sess[1].fullText).value)
                       <= Len(Extract(sess'[1].fullText).value)
                  /\ IsPrefix(Extract(sess[1].fullText).value,
                              Extract(sess'[1].fullText).value)
          /\ MatchIndex(sess[1].fullText) # 0
               => MatchIndex(sess'[1].fullText) = MatchIndex(sess[1].fullText)]_vars

\* The extractor has given a value on two buffers in a row, from a match
\* that is not at the first head of the buffer.
C14_Witness ==
  /\ Len(sess[1].calls) >= 2
  /\ MatchIndex(sess[1].fullText) > 1

\* C15: while a session consumes its stream the accumulator only grows at
\* its end, by exactly what the endpoint delivered, in order: every earlier
\* buffer is a prefix of every later one and the buffer followed by what is
\* still to come is always the whole stream.
C15_AppendOnly ==
  [][(sess[1].pc = "streaming" /\ sess'[1].pc = "streaming")
       => /\ IsPrefix(sess[1].fullText, sess'[1].fullText)
          /\ sess'[1].fullText \o sess'[1].pending
               = sess[1].fullText \o sess[1].pending
          /\ Len(sess'[1].pending) <= Len(sess[1].pending)]_vars

\* The whole stream has been accumulated from two fragments with text.
C15_Witness ==
  /\ sess[1].pc = "streaming"
  /\ sess[1].pending = <<>>
  /\ Len(sess[1].calls) = 2

\* C16: a session starts with an empty accumulator of its own; a step that
\* changes a session's buffer appends text the endpoint sent to that session
\* and touches no other session; a completed session returns what
\* JSON.parse gives on its own buffer.
C16_OwnAccumulator ==
  [][\A s \in Sessions :
       /\ (sess[s].pc \in {"idle", "requesting"}
             /\ sess'[s].pc \in {"requesting", "streaming"})
            => sess'[s].fullText = <<>>
       /\ (sess[s].pc = "streaming" /\ sess'[s].fullText # sess[s].fullText
             /\ sess'[s].pc = "streaming")
            => /\ \E n \in 1..Len(sess[s].pending) :
                    sess'[s].fullText
                      = sess[s].fullText \o SubSeq(sess[s].pending, 1, n)
               /\ \A t \in Sessions \ {s} : sess'[t] = sess[t]
       /\ (sess[s].pc = "streaming" /\ sess'[s].pc = "completed")
            => /\ JsonParse(sess[s].fullText).ok
               /\ sess'[s].returned = JsonParse(sess[s].fullText).val]_vars

\* Two sessions are consuming their streams at once, each with text in its
\* buffer.
C16_Witness ==
  \E s, t \in Sessions :
    /\ s # t
    /\ sess[s].pc = "streaming" /\ sess[s].fullText # <<>>
    /\ sess[t].pc = "streaming" /\ sess[t].fullText # <<>>

\* C17 as stated: at most one session is in flight at any time.
C17_OneInFlight ==
  Cardinality({s \in Sessions : sess[s].pc \in {"requesting", "streaming"}}) <= 1

\* Two sessions are in flight.
C17_Witness ==
  Cardinality({s \in Sessions : sess[s].pc \in {"requesting", "streaming"}}) >= 2

\* C18 as stated: when a session completes, the stored history becomes the
\* session's entry (its request fields and its result) followed by the
\* entries stored before, cut to HistoryLimit.
C18_GrowsByOne ==
  [][\A s \in Sessions :
       (sess[s].pc = "streaming" /\ sess'[s].pc = "completed")
         => /\ storedHistory' # <<>>
            /\ storedHistory'[1].id = s
            /\ storedHistory'[1].inputText = sess[s].text
            /\ storedHistory'[1].sourceLang = sess[s].source
            /\ storedHistory'[1].targetLang = sess[s].target
            /\ storedHistory'[1].vibeMode = sess[s].vibe
            /\ storedHistory'[1].result = sess'[s].returned
            /\ Tail(storedHistory') = Take(storedHistory, HistoryLimit - 1)]_vars

\* C19: the stored history never holds more than HistoryLimit entries and
\* is ordered most recent first.
C19_BoundedNewestFirst ==
  /\ Len(storedHistory) <= HistoryLimit
  /\ \A k \in 1..(Len(storedHistory) - 1) :
       storedHistory[k].timestamp >= storedHistory[k + 1].timestamp

\* Two sessions have completed on a full history: their entries come first
\* and the history is still HistoryLimit long.
C19_Witness ==
  /\ Len(storedHistory) = HistoryLimit
  /\ storedHistory[1].id \in Sessions
  /\ storedHistory[2].id \in Sessions
  /\ storedHistory[HistoryLimit].id < 0

\* C20: the promise of a speakText call never rejects, whatever the speech
\* endpoint answers and whatever decoding and playback do; nothing is played
\* unless the response carried an audio payload.
C20_SpeakNeverThrows ==
  /\ ~tts.rejected
  /\ tts.pc = "settled" => (tts.played => tts.payload = "data")
  /\ (tts.pc = "settled" /\ tts.payload = "absent") => (~tts.played /\ ~tts.logged)

\* A speakText call has ended after a response whose payload made the try
\* block throw.
C20_Witness ==
  /\ tts.pc = "settled"
  /\ tts.payload = "data"
  /\ tts.logged
  /\ ~tts.played

\* C21: a session that is in flight was started with text that is not empty
\* and is its own trim; a call of handleTranslate on text that is empty or
\* only whitespace starts no session and changes nothing.
C21_NonEmptyRequests ==
  /\ [](\A s \in Sessions :
          sess[s].pc \in {"requesting", "streaming"}
            => (sess[s].text # <<>> /\ Trim(sess[s].text) = sess[s].text))
  /\ [][(TranslateCalled /\ Trim(inputText) = <<>>)
          => UNCHANGED <<appVars, navOnline, sess, nextSession, tts>>]_vars

\* handleTranslate has been called on text that is only whitespace, and no
\* session was ever started.
C21_Witness ==
  /\ translateTick
  /\ inputText # <<>>
  /\ Trim(inputText) = <<>>
  /\ nextSession = 1
  /\ \A s \in Sessions : sess[s].pc = "idle"

\* C22: the directive of a request whose source language is "auto" holds
\* the instruction to detect the source language and names no source
\* language; the directive of a request with any other source language
\* names that language, after "from" and before the target language, and
\* holds no instruction to detect.
C22_SourceDirective ==
  \A s \in Sessions :
    sess[s].pc = "requesting"
      => LET p == sess[s].prompt IN
         IF sess[s].source = "auto"
         THEN /\ Includes(p, <<"    Translate the following text from ",
                                DetectContext, " to ", sess[s].target>>)
              /\ ~Includes(p, <<NamedContextHead>>)
         ELSE /\ Includes(p, <<"    Translate the following text from ",
                                NamedContextHead, sess[s].source,
                                " to ", sess[s].target>>)
              /\ ~Includes(p, <<DetectContext>>)

\* A request with a named source language is in flight, in the taglish
\* vibe, whose style text names no language.
C22_Witness ==
  /\ sess[1].pc = "requesting"
  /\ sess[1].source = "ja"
  /\ sess[1].vibe = "taglish"
  /\ Includes(sess[1].prompt, <<NamedContextHead, "ja">>)

\* The order of the states of a session; finalizing is the end of the step
\* that leaves streaming at the end of the stream.
SessionOrder ==
  { <<"idle", "requesting">>, <<"requesting", "streaming">>,
    <<"requesting", "failed">>, <<"streaming", "failed">>,
    <<"streaming", "completed">> }

\* C23: a session moves idle, requesting, streaming and then completed or
\* failed, in that order; it completes only at the end of its stream; once
\* completed or failed it never changes again; a session in flight whose
\* transport keeps acting ends completed or failed; and whenever no session
\* is in flight, isLoading and isStreaming are both false.
C23_SessionSettles ==
  /\ []((\A s \in Sessions : ~InFlight(s)) => (~isLoading /\ ~isStreaming))
  /\ [](\A s \in Sessions :
          /\ sess[s].pc = "completed" => sess[s].thrown = "none"
          /\ sess[s].pc = "failed" => sess[s].returned = JNone)
  /\ [][\A s \in Sessions :
          /\ Settled(s) => sess'[s] = sess[s]
          /\ sess'[s].pc # sess[s].pc
               => <<sess[s].pc, sess'[s].pc>> \in SessionOrder
          /\ (sess'[s].pc = "completed" /\ sess[s].pc # "completed")
               => sess[s].pending = <<>>]_vars
  /\ \A s \in Sessions : InFlight(s) ~> Settled(s)

\* Two sessions overlapped: one completed, the other failed at the end of
\* its stream, and both flags are false.
C23_Witness ==
  \E s, t \in Sessions :
    /\ sess[s].pc = "completed"
    /\ sess[t].pc = "failed"
    /\ sess[t].failedIn = "finalizing"
    /\ s < t
    /\ ~isLoading
    /\ ~isStreaming

\* The buffer holds no value of the field that has been closed: every head
\* in it that is followed by an opening quote (there may be none) has no
\* unescaped quote after that.
StillOpen(s) == \A v \in OpenedValues(s) : UnescapedQuotes(s, v[2]) = {}

\* C24: on a buffer in which the field has not appeared or its string is
\* still open the extractor gives absent, and the chunk that made the
\* buffer calls onChunk with nothing and leaves streamingText as it was.
C24_NoReportWhileOpen ==
  /\ [](StillOpen(sess[1].fullText) => ~Extract(sess[1].fullText).found)
  /\ [][StillOpen(sess'[1].fullText)
          => /\ sess'[1].calls = sess[1].calls
             /\ streamingText' = streamingText]_vars

\* Three chunks have been consumed and the string of the field is still
\* open after an escaped quote; nothing has been reported.
C24_Witness ==
  /\ sess[1].chunks >= 3
  /\ OpenedValues(sess[1].fullText) # {}
  /\ StillOpen(sess[1].fullText)
  /\ Includes(sess[1].fullText, <<Backslash, Quote>>)
  /\ sess[1].calls = <<>>

\* C25 as stated: isStreaming is never true while errorKey is set.
C25_NeverStreamingAndFailed == ~(isStreaming /\ errorKey # "none")

\* A session is in flight with isStreaming true, and errorKey is OFFLINE.
C25_Witness ==
  /\ isStreaming
  /\ errorKey = "OFFLINE"
  /\ \E s \in Sessions : sess[s].pc \in {"requesting", "streaming"}

\* C26 as stated, at the step where a cleared entry would come back first:
\* when the in-memory and the persisted history are empty (nothing was ever
\* added, or they were cleared), a step leaves in each of them at most one
\* entry, the one of the session that completes in that step.
C26_ClearedStaysCleared ==
  [][(history = <<>> /\ storedHistory = <<>>)
       => /\ Len(history') <= 1
          /\ Len(storedHistory') <= 1
          /\ \A k \in 1..Len(storedHistory') :
               /\ storedHistory'[k].id \in Sessions
               /\ sess[storedHistory'[k].id].pc = "streaming"
               /\ sess'[storedHistory'[k].id].pc = "completed"]_vars

\* A session that was started on an empty history, so after the stored
\* entries of earlier runs had been cleared, is still in flight, and the
\* in-memory and the persisted history hold entries of those earlier runs
\* again, below the entry of a session that has completed.
C26_Witness ==
  /\ \E t \in Sessions :
       sess[t].pc \in {"requesting", "streaming"} /\ sess[t].hist = <<>>
  /\ Len(history) >= 2
  /\ history[1].id \in Sessions
  /\ history[2].id < 0
  /\ storedHistory = history

\* C27 as stated: whenever no session is in flight and result is null,
\* streamingText is empty.
C27_NoPartialTextLeft ==
  ((\A s \in Sessions : ~InFlight(s)) /\ result = JNone) => streamingText = <<>>

\* A session failed after it had reported progress, the error has been
\* dismissed, no session is in flight, result is null, and streamingText
\* still holds the last value reported: the result panel shows it.
C27_Witness ==
  /\ \A s \in Sessions : ~InFlight(s)
  /\ \E s \in Sessions :
       /\ sess[s].pc = "failed"
       /\ sess[s].calls # <<>>
       /\ streamingText = sess[s].calls[Len(sess[s].calls)]
  /\ result = JNone
  /\ errorKey = "none"
  /\ streamingText # <<>>

\* C28: the step in which a session fails changes nothing of the
\* application but errorKey, isLoading and isStreaming: the in-memory and
\* the persisted history, the last translated request, result,
\* streamingText, the text and the settings stay as they were, and so does
\* every other session.
C28_FailureFrame ==
  [][\A s \in Sessions :
       (InFlight(s) /\ sess'[s].pc = "failed")
         => /\ UNCHANGED <<history, storedHistory, lastTranslatedState>>
            /\ UNCHANGED <<inputText, sourceLang, targetLang, vibeMode,
                           result, streamingText, isOnline>>
            /\ \A t \in Sessions \ {s} : sess'[t] = sess[t]]_vars

\* A session failed after it had reported progress and after another had
\* completed: the history holds the entry of the completed one, the last
\* translated request is set, and streamingText is what the failed one
\* reported last.
C28_Witness ==
  \E s, t \in Sessions :
    /\ sess[s].pc = "completed"
    /\ sess[t].pc = "failed"
    /\ sess[t].calls # <<>>
    /\ streamingText = sess[t].calls[Len(sess[t].calls)]
    /\ streamingText # <<>>
    /\ history # <<>>
    /\ history[1].id = s
    /\ storedHistory = history
    /\ lastTranslatedState.set

\* The request of the current text and settings is the one translated or
\* restored last, whether or not the ref still holds it.
SameAsLastDone ==
  /\ lastTranslatedState.text = Trim(inputText)
  /\ lastTranslatedState.source = sourceLang
  /\ lastTranslatedState.target = targetLang
  /\ lastTranslatedState.vibe = vibeMode

\* A call of handleTranslate starts a session with the current request.
SessionStarted ==
  /\ nextSession' = nextSession + 1
  /\ sess'[nextSession].pc = "requesting"
  /\ sess'[nextSession].text = Trim(inputText)
  /\ sess'[nextSession].source = sourceLang
  /\ sess'[nextSession].target = targetLang
  /\ sess'[nextSession].vibe = vibeMode

\* C29 as stated: a call of handleTranslate on non-empty text whose trimmed
\* text and three settings are those of the last completed translation or
\* restored item, while result is set, starts no session and changes
\* nothing; any other call on non-empty text, online, starts a session.
C29_RepeatOfLastDone ==
  [][(TranslateCalled /\ Trim(inputText) # <<>>)
       => IF SameAsLastDone /\ Truthy(result)
          THEN UNCHANGED <<appVars, navOnline, sess, nextSession, tts>>
          ELSE isOnline => SessionStarted]_vars

\* C29, amended: the comparison is with the record the ref holds, which
\* is null from a clear of the history until the next completed translation
\* or restore; a call on non-empty text that repeats the held record while
\* result is set starts no session and changes nothing, and any other call
\* on non-empty text, online, starts a session.
C29_RepeatOfHeldRecord ==
  [][(TranslateCalled /\ Trim(inputText) # <<>>)
       => IF SameAsLast(Trim(inputText)) /\ Truthy(result)
          THEN UNCHANGED <<appVars, navOnline, sess, nextSession, tts>>
          ELSE isOnline => SessionStarted]_vars

\* One session was started and has completed, its result is shown, the
\* text area holds its request with padding, and handleTranslate has been
\* called an even number of times: at least once more than the call that
\* started the session.
C29_Witness ==
  /\ ~translateTick
  /\ nextSession = 2
  /\ sess[1].pc = "completed"
  /\ lastTranslatedState.set
  /\ inputText # Trim(inputText)
  /\ SameAsLast(Trim(inputText))
  /\ Truthy(result)
  /\ history # <<>>

\* C30: the in-memory history always equals the list that JSON.parse gives
\* on the text stored under the history key, after every completed session
\* and every clear; and both change together or not at all.
C30_MemoryEqualsStored ==
  /\ [](history = storedHistory)
  /\ [][(history' # history \/ storedHistory' # storedHistory)
          => \/ history' = <<>> /\ storedHistory' = <<>>
             \/ \E s \in Sessions :
                  /\ sess[s].pc = "streaming"
                  /\ sess'[s].pc = "completed"
                  /\ history'[1].result = sess'[s].returned
                  /\ storedHistory'[1].result = sess'[s].returned]_vars

\* Two sessions have completed one after the other and both entries are
\* stored: the newer with a text and a translation that hold a quote,
\* backslashes and a tab, the older with the result null.
C30_Witness ==
  /\ Len(storedHistory) = 2
  /\ storedHistory[1].id = 2
  /\ storedHistory[2].id = 1
  /\ storedHistory[2].result = JLit("null")
  /\ Includes(storedHistory[1].inputText, <<Quote>>)
  /\ Get(storedHistory[1].result, translatedTextKey) = JStr(<<Backslash, Tab>>)

====
